---- MODULE Spec2Model ----
(***************************************************************************)
(* Model of the script assembler loop of youtube-scripts-tool              *)
(* (src/index.js): the LangGraph graph START -> llmCall -> {llmCall, END}  *)
(* built by ScriptWriterAgent.buildAgent, the state update of              *)
(* processResponse / handleError, the routing of shouldContinue and the    *)
(* finalisation of generateScript / generateYouTubeScript.                 *)
(*                                                                         *)
(* Strings are sequences of character codes (32 = space, 97.. = letters),  *)
(* so that split(/\s+/), slice, join and trim are computed, not assumed.   *)
(***************************************************************************)
EXTENDS Integers, Sequences, FiniteSets, TLC

VARIABLES
    state,         \* the graph state threaded through the loop (State schema)
    pc,            \* position of the run: start, llmCall, shouldContinue, END, returned
    result,        \* the value returned by generateYouTubeScript
    calls,         \* number of executions of the llmCall node so far
    failures,      \* number of those executions whose service call failed
    streak,        \* number of consecutive failed executions ending at the last one
    lastKind,      \* outcome of the last pass: none, ok, fail
    lastResponse,  \* the service response of the last pass
    lastState,     \* the state the last pass started from
    okScript       \* state.script as of the last successful pass

vars == <<state, pc, result, calls, failures, streak,
          lastKind, lastResponse, lastState, okScript>>

-----------------------------------------------------------------------------
(* Bounds of the model *)

\* the service gives whitespace-padded or empty continuations, and those of
\* EarlyLens words, only in the first IrregularCalls executions of llmCall
IrregularCalls == 1

\* cap on the failed calls of a run; above the 3 the loop tolerates
MaxFailures == 4

\* values of the maxWords argument: below range, the minimum, three in range, above range
MaxWordsArgs == {5, 10, 40, 60, 100, 40001}

\* word lengths of well-formed continuations
ContLens == {1, 40, 70}

\* word length of one more well-formed continuation, given early in a run only
EarlyLens == {23}


Topics == {"fox"}

-----------------------------------------------------------------------------
(* Program constants *)

maxRetries == 3

MinMaxWords == 10

MaxMaxWords == 40000

CompletionThreshold == 50

IterationCeiling == 20

\* z.enum of outputSchema.script_type, plus the absent value
ScriptTypes == {"undefined", "intro", "body", "conclusion", "hook"}

-----------------------------------------------------------------------------
(* Strings *)

\* code units matched by \s and stripped by trim(): tab, line feed, vertical
\* tab, form feed, carriage return, space, no-break space, the Unicode space
\* separators, line and paragraph separator, byte order mark
WhiteSpace ==
    {9, 10, 11, 12, 13, 32, 160, 5760} \cup (8192..8202) \cup
    {8232, 8233, 8239, 8287, 12288, 65279}

IsWS(c) == c \in WhiteSpace

\* split on every single whitespace character: "a  b" gives a, "", b
RECURSIVE SplitEach(_)
SplitEach(s) ==
    IF Len(s) = 0 THEN << <<>> >>
    ELSE IF Len(s) = 1 THEN (IF IsWS(s[1]) THEN << <<>>, <<>> >> ELSE <<s>>)
    ELSE LET h == Len(s) \div 2
             l == SplitEach(SubSeq(s, 1, h))
             r == SplitEach(SubSeq(s, h + 1, Len(s)))
         IN  SubSeq(l, 1, Len(l) - 1) \o <<l[Len(l)] \o r[1]>> \o Tail(r)

NonEmpty(piece) == piece # <<>>

\* String.prototype.split(/\s+/): pieces between maximal whitespace runs,
\* with an empty piece before a leading run and after a trailing run; the
\* empty pieces between two characters of one run do not exist
SplitWS(s) ==
    LET p == SplitEach(s)
    IN  IF Len(p) <= 2 THEN p
        ELSE <<p[1]>> \o SelectSeq(SubSeq(p, 2, Len(p) - 1), NonEmpty) \o <<p[Len(p)]>>

\* Array.prototype.slice(0, n) for n >= 0
Slice0(a, n) == SubSeq(a, 1, IF n < Len(a) THEN n ELSE Len(a))

\* Array.prototype.join(sep)
RECURSIVE Join(_, _)
Join(a, sep) ==
    IF Len(a) = 0 THEN <<>>
    ELSE IF Len(a) = 1 THEN a[1]
    ELSE LET h == Len(a) \div 2
         IN  Join(SubSeq(a, 1, h), sep) \o sep \o Join(SubSeq(a, h + 1, Len(a)), sep)

RECURSIVE TrimStart(_)
TrimStart(s) ==
    IF Len(s) > 0 /\ IsWS(s[1]) THEN TrimStart(Tail(s)) ELSE s

RECURSIVE TrimEnd(_)
TrimEnd(s) ==
    IF Len(s) > 0 /\ IsWS(s[Len(s)]) THEN TrimEnd(SubSeq(s, 1, Len(s) - 1)) ELSE s

\* String.prototype.trim()
Trim(s) == TrimEnd(TrimStart(s))

\* Math.max left out: the second argument is passed through
Max_unclamped(a, b) == b

\* Math.max
Max(a, b) == IF a >= b THEN a ELSE b

\* the nearest integer to the rational 100 * n / d, a half rounding up
RoundPercent(n, d) == (200 * n + d) \div (2 * d)

-----------------------------------------------------------------------------
(* IEEE 754 double arithmetic for (n / d) * 100 with 0 < n <= d.  A 53-bit   *)
(* significand is kept in limbs of 13 bits under a leading part:            *)
(* top * 2^52 + l1 * 2^39 + l2 * 2^26 + l3 * 2^13 + l4.                     *)

Limb == 2^13

\* the least k with 2^k * n >= d: n / d lies in [2^-k, 2^(1-k))
RECURSIVE BinadeShift(_, _)
BinadeShift(n, d) == IF n >= d THEN 0 ELSE 1 + BinadeShift(2 * n, d)

\* add a small c at the low end and carry upwards
AddLow(m, c) ==
    LET v4 == m.l4 + c
        v3 == m.l3 + (v4 \div Limb)
        v2 == m.l2 + (v3 \div Limb)
        v1 == m.l1 + (v2 \div Limb)
    IN  [top |-> m.top + (v1 \div Limb),
         l1 |-> v1 % Limb, l2 |-> v2 % Limb, l3 |-> v3 % Limb, l4 |-> v4 % Limb]

\* the double nearest to n / d (ties to even): significand and binade
DoubleDiv(n, d) ==
    LET k == BinadeShift(n, d)
        r0 == n * (2^k) - d
        f1 == (r0 * Limb) \div d
        r1 == (r0 * Limb) % d
        f2 == (r1 * Limb) \div d
        r2 == (r1 * Limb) % d
        f3 == (r2 * Limb) \div d
        r3 == (r2 * Limb) % d
        f4 == (r3 * Limb) \div d
        r4 == (r3 * Limb) % d
        floor == [top |-> 1, l1 |-> f1, l2 |-> f2, l3 |-> f3, l4 |-> f4]
        up == 2 * r4 > d \/ (2 * r4 = d /\ f4 % 2 = 1)
    IN  [k |-> k, m |-> IF up THEN AddLow(floor, 1) ELSE floor]

\* the double nearest to q * 100 (ties to even), in the scale of q
DoubleTimes100(q) ==
    LET v4 == 100 * q.m.l4
        v3 == 100 * q.m.l3 + (v4 \div Limb)
        v2 == 100 * q.m.l2 + (v3 \div Limb)
        v1 == 100 * q.m.l1 + (v2 \div Limb)
        t == 100 * q.m.top + (v1 \div Limb)
        p4 == v4 % Limb
        s == IF t >= 128 THEN 7 ELSE 6
        low == p4 % (2^s)
        half == 2^(s - 1)
        up == low > half \/ (low = half /\ (p4 \div (2^s)) % 2 = 1)
        kept == [top |-> t, l1 |-> v1 % Limb, l2 |-> v2 % Limb, l3 |-> v3 % Limb,
                 l4 |-> p4 - low]
    IN  [k |-> q.k, m |-> AddLow(kept, IF up THEN 2^s ELSE 0)]

\* Math.round of the double x: floor(x + 1/2)
MathRound(x) ==
    IF x.k = 0
    THEN x.m.top + (IF x.m.l1 >= Limb \div 2 THEN 1 ELSE 0)
    ELSE (x.m.top + 2^(x.k - 1)) \div (2^(x.k))

\* Math.round((result.word_count / maxWords) * 100); each intermediate double
\* is bound as a value before the next operation is applied to it
efficiency(wordCount, maxWords) ==
    IF wordCount = 0 THEN 0
    ELSE CHOOSE e \in
            {MathRound(p) :
                p \in {DoubleTimes100(q) : q \in {DoubleDiv(wordCount, maxWords)}}} :
            TRUE

-----------------------------------------------------------------------------
(* The generation service: the responses it may give *)

Letter(i) == 97 + ((i - 1) % 26)

\* n one-letter words a b c ... separated by single spaces
WordsText(n) ==
    IF n = 0 THEN <<>>
    ELSE [i \in 1..(2 * n - 1) |-> IF i % 2 = 1 THEN Letter((i + 1) \div 2) ELSE 32]

Response(c, s, done, type) ==
    [continuation |-> c, continuation_summary |-> s,
     completed |-> done, script_type |-> type]

\* the content-type tag the service gives to a continuation of n words
TypeOfLen(n) ==
    IF n <= 1 THEN "hook" ELSE IF n <= 40 THEN "body" ELSE "conclusion"

RegularResponses ==
    {Response(WordsText(n), <<115>>, done, TypeOfLen(n)) :
        n \in ContLens, done \in BOOLEAN}

\* the empty continuation, 11 words after a leading space, 1 word before a
\* trailing carriage return and line feed; no summary text and no
\* content-type tag
IrregularContinuations ==
    {<<>>, <<32>> \o WordsText(11), WordsText(1) \o <<13, 10>>}

IrregularResponses ==
    {Response(c, <<>>, done, "undefined") :
        c \in IrregularContinuations, done \in BOOLEAN}

\* what the service may give early in a run, besides the regular responses
EarlyResponses ==
    IrregularResponses
        \cup {Response(WordsText(n), <<115>>, done, TypeOfLen(n)) :
                    n \in EarlyLens, done \in BOOLEAN}

NoResponse == Response(<<>>, <<>>, FALSE, "undefined")

-----------------------------------------------------------------------------
(* ScriptWriterAgent *)

isFirstIteration(st) == st.word_count = 0

\* the request text, by its variable parts: which part is asked for, the
\* counters shown, the summary line (or the beginning line), the instruction
buildHumanMessage(st) ==
    [part |-> IF isFirstIteration(st) THEN "first part" ELSE "next part",
     topic |-> st.topic,
     word_count |-> st.word_count,
     max_words |-> st.max_words,
     word_remaining |-> st.word_remaining,
     hasSummary |-> ~isFirstIteration(st),
     summary |-> IF ~isFirstIteration(st) THEN st.summary ELSE <<>>,
     instruction |-> IF isFirstIteration(st) THEN "hook" ELSE "continue"]

\* the locals of processResponse, each as a function of what it is computed from
\* only the non-empty pieces are counted
newWords_nonEmpty(response) ==
    Len(SelectSeq(SplitWS(response.continuation), NonEmpty))

newWords(response) == Len(SplitWS(response.continuation))

\* the previous count is left out of the sum
newWordCount_notCumulative(st, response) == newWords(response)

newWordCount(st, response) == st.word_count + newWords(response)

wordsRemaining(st, response) == st.max_words - newWordCount(st, response)

actualContinuation(st, response, remaining) ==
    IF remaining < 0
    THEN Join(Slice0(SplitWS(response.continuation), st.word_remaining), <<32>>)
    ELSE response.continuation

\* the count is not clamped on overshoot
actualWordCount_unclamped(st, counted, remaining) == counted

actualWordCount(st, counted, remaining) ==
    IF remaining < 0 THEN st.max_words ELSE counted

\* completion is forced below 50 remaining words only (< for <=)
processResponse_strictThreshold(st, response) ==
    LET counted == newWordCount(st, response)
        remaining == st.max_words - counted
    IN  [st EXCEPT
            !.word_count = actualWordCount(st, counted, remaining),
            !.word_remaining = Max(0, remaining),
            !.script = st.script \o actualContinuation(st, response, remaining) \o <<32>>,
            !.summary = st.summary \o response.continuation_summary \o <<32>>,
            !.completed = response.completed \/ remaining < CompletionThreshold,
            !.script_type = response.script_type,
            !.iterations = st.iterations + 1]

\* a successful pass starts the failure count afresh
processResponse_resetsErrors(st, response) ==
    LET counted == newWordCount(st, response)
        remaining == st.max_words - counted
    IN  [st EXCEPT
            !.word_count = actualWordCount(st, counted, remaining),
            !.word_remaining = Max(0, remaining),
            !.script = st.script \o actualContinuation(st, response, remaining) \o <<32>>,
            !.summary = st.summary \o response.continuation_summary \o <<32>>,
            !.completed = response.completed \/ remaining <= CompletionThreshold,
            !.script_type = response.script_type,
            !.iterations = st.iterations + 1,
            !.error_count = 0]

\* the summary is replaced by the latest continuation summary
processResponse_overwritesSummary(st, response) ==
    LET counted == newWordCount(st, response)
        remaining == st.max_words - counted
    IN  [st EXCEPT
            !.word_count = actualWordCount(st, counted, remaining),
            !.word_remaining = Max(0, remaining),
            !.script = st.script \o actualContinuation(st, response, remaining) \o <<32>>,
            !.summary = response.continuation_summary \o <<32>>,
            !.completed = response.completed \/ remaining <= CompletionThreshold,
            !.script_type = response.script_type,
            !.iterations = st.iterations + 1]

\* completion follows the service's flag alone
processResponse_flagOnly(st, response) ==
    LET counted == newWordCount(st, response)
        remaining == st.max_words - counted
    IN  [st EXCEPT
            !.word_count = actualWordCount(st, counted, remaining),
            !.word_remaining = Max(0, remaining),
            !.script = st.script \o actualContinuation(st, response, remaining) \o <<32>>,
            !.summary = st.summary \o response.continuation_summary \o <<32>>,
            !.completed = response.completed,
            !.script_type = response.script_type,
            !.iterations = st.iterations + 1]

processResponse(st, response) ==
    LET counted == newWordCount(st, response)
        remaining == st.max_words - counted
    IN  [st EXCEPT
            !.word_count = actualWordCount(st, counted, remaining),
            !.word_remaining = Max(0, remaining),
            !.script = st.script \o actualContinuation(st, response, remaining) \o <<32>>,
            !.summary = st.summary \o response.continuation_summary \o <<32>>,
            !.completed = response.completed \/ remaining <= CompletionThreshold,
            !.script_type = response.script_type,
            !.iterations = st.iterations + 1]

\* the failure is not counted
handleError_notCounted(st) == st

\* a failed pass counts as an iteration too
handleError_countsIteration(st) ==
    LET newState == [st EXCEPT !.error_count = st.error_count + 1,
                               !.iterations = st.iterations + 1]
    IN  IF newState.error_count >= maxRetries
        THEN [newState EXCEPT !.completed = TRUE]
        ELSE newState

\* completion is never forced
handleError_noForce(st) == [st EXCEPT !.error_count = st.error_count + 1]

\* completion is forced one failure late (> for >=)
handleError_strict(st) ==
    LET newState == [st EXCEPT !.error_count = st.error_count + 1]
    IN  IF newState.error_count > maxRetries
        THEN [newState EXCEPT !.completed = TRUE]
        ELSE newState

\* the new state is built without the previous content-type tag
handleError_dropsType(st) ==
    LET newState == [st EXCEPT !.error_count = st.error_count + 1,
                               !.script_type = "undefined"]
    IN  IF newState.error_count >= maxRetries
        THEN [newState EXCEPT !.completed = TRUE]
        ELSE newState

handleError(st) ==
    LET newState == [st EXCEPT !.error_count = st.error_count + 1]
    IN  IF newState.error_count >= maxRetries
        THEN [newState EXCEPT !.completed = TRUE]
        ELSE newState

\* the completed flag is not consulted
shouldContinue_ignoresCompleted(st) ==
    IF st.word_remaining <= 0 THEN "END"
    ELSE IF st.iterations > IterationCeiling THEN "END"
    ELSE "llmCall"

\* the iteration ceiling is not consulted
shouldContinue_noCeiling(st) ==
    IF st.completed \/ st.word_remaining <= 0 THEN "END"
    ELSE "llmCall"

shouldContinue(st) ==
    IF st.completed \/ st.word_remaining <= 0 THEN "END"
    ELSE IF st.iterations > IterationCeiling THEN "END"
    ELSE "llmCall"

initialState(topic, maxWords) ==
    [topic |-> topic,
     max_words |-> maxWords,
     word_count |-> 0,
     word_remaining |-> maxWords,
     script |-> <<>>,
     summary |-> <<>>,
     completed |-> FALSE,
     script_type |-> "undefined",
     iterations |-> 0,
     error_count |-> 0]

\* the schema has no .min(10)
ValidMaxWords_noMin(m) == m <= MaxMaxWords

\* the State schema's constraint on max_words, checked when the graph is invoked
ValidMaxWords(m) == m >= MinMaxWords /\ m <= MaxMaxWords

Pending == [returned |-> FALSE]

\* the catch block hands back metadata keys instead of an empty object
FailureResult_keepsMetadata(msg) ==
    [returned |-> TRUE, success |-> FALSE, error |-> msg,
     script |-> <<>>, metadata |-> [keys |-> {"wordCount", "iterations"}]]

FailureResult(msg) ==
    [returned |-> TRUE, success |-> FALSE, error |-> msg,
     script |-> <<>>, metadata |-> [keys |-> {}]]

SuccessResult(st) ==
    [returned |-> TRUE, success |-> TRUE,
     script |-> Trim(st.script),
     metadata |-> [keys |-> {"wordCount", "iterations", "finalType", "efficiency"},
                   wordCount |-> st.word_count,
                   iterations |-> st.iterations,
                   finalType |-> st.script_type,
                   efficiency |-> efficiency(st.word_count, st.max_words)]]

-----------------------------------------------------------------------------
(* The run *)

Init ==
    /\ state \in {initialState(t, m) : t \in Topics, m \in MaxWordsArgs}
    /\ pc = "start"
    /\ result = Pending
    /\ calls = 0
    /\ failures = 0
    /\ streak = 0
    /\ lastKind = "none"
    /\ lastResponse = NoResponse
    /\ lastState = state
    /\ okScript = <<>>

\* generateYouTubeScript up to agent.invoke: construct the agent, then
\* validate the initial state against the State schema
Invoke ==
    /\ pc = "start"
    /\ \E constructed \in BOOLEAN :
        IF ~constructed
        THEN /\ pc' = "returned"
             /\ result' = FailureResult("construction")
        ELSE IF ~ValidMaxWords(state.max_words)
        THEN /\ pc' = "returned"
             /\ result' = FailureResult("validation")
        ELSE /\ pc' = "llmCall"
             /\ result' = result
    /\ UNCHANGED <<state, calls, failures, streak,
                   lastKind, lastResponse, lastState, okScript>>

\* the llmCall node, service call succeeded with the given response
llmCallOk(response) ==
    /\ state' = processResponse(state, response)
    /\ lastKind' = "ok"
    /\ lastResponse' = response
    /\ failures' = failures
    /\ streak' = 0
    /\ okScript' = state'.script

\* the llmCall node, service call threw
llmCallFail ==
    /\ state' = handleError(state)
    /\ lastKind' = "fail"
    /\ lastResponse' = NoResponse
    /\ failures' = failures + 1
    /\ streak' = streak + 1
    /\ okScript' = okScript

llmCall ==
    /\ pc = "llmCall"
    /\ failures < MaxFailures
    /\ \/ \E response \in RegularResponses : llmCallOk(response)
       \/ /\ calls < IrregularCalls
          /\ \E response \in EarlyResponses : llmCallOk(response)
       \/ llmCallFail
    /\ lastState' = state
    /\ calls' = calls + 1
    /\ pc' = "shouldContinue"
    /\ UNCHANGED result

\* the conditional edge out of llmCall
Route ==
    /\ pc = "shouldContinue"
    /\ pc' = shouldContinue(state)
    /\ UNCHANGED <<state, result, calls, failures, streak,
                   lastKind, lastResponse, lastState, okScript>>

\* generateScript after agent.invoke, and generateYouTubeScript's return
Return ==
    /\ pc = "END"
    /\ result' = SuccessResult(state)
    /\ pc' = "returned"
    /\ UNCHANGED <<state, calls, failures, streak,
                   lastKind, lastResponse, lastState, okScript>>

Next == Invoke \/ llmCall \/ Route \/ Return

Spec == Init /\ [][Next]_vars

FairSpec == Spec /\ WF_vars(Next)

-----------------------------------------------------------------------------
(* Properties *)

\* the run entered the loop: the agent was constructed and the state validated
InLoop == pc \in {"llmCall", "shouldContinue", "END"} \/ calls > 0

Succeeded == result.returned /\ result.success

\* the last pass was a successful call whose continuation overshot the budget
LastOvershoot ==
    /\ lastKind = "ok"
    /\ wordsRemaining(lastState, lastResponse) < 0

\* C1: for a valid max_words, word_count never exceeds max_words, in every
\* state of the loop and in the returned metadata.wordCount
C1_WordCountBounded ==
    ValidMaxWords(state.max_words) =>
        /\ state.word_count <= state.max_words
        /\ Succeeded => result.metadata.wordCount <= state.max_words

\* a run that returned after a clamped overshoot
C1_Witness ==
    /\ LastOvershoot
    /\ Succeeded
    /\ result.metadata.wordCount = state.max_words

\* C2: word_count + word_remaining = max_words in the initial state and
\* after every pass, successful (clamped or not) or failed
C2_CountPlusRemaining ==
    state.word_count + state.word_remaining = state.max_words

\* a run with unclamped successful passes and a failed pass, whose last pass
\* was a clamped overshoot
C2_Witness ==
    /\ LastOvershoot
    /\ failures > 0
    /\ state.iterations > 1

\* the words of a text: its non-empty whitespace-separated pieces
RealWords(s) == SelectSeq(SplitWS(s), NonEmpty)

\* what the last pass appended to script, without the trailing space
LastAppended ==
    SubSeq(state.script, Len(lastState.script) + 1, Len(state.script) - 1)

\* C3: when a successful call returns a continuation of L words while
\* word_remaining = R < L, the text appended to script is exactly the first
\* R words of the continuation, in order, and word_count becomes max_words
C3_TruncationKeepsFirstR ==
    (/\ lastKind = "ok"
     /\ Len(RealWords(lastResponse.continuation)) > lastState.word_remaining)
    =>
    (/\ RealWords(LastAppended)
            = SubSeq(RealWords(lastResponse.continuation), 1, lastState.word_remaining)
     /\ state.word_count = state.max_words)

\* C4: completed is one-way, and no llmCall execution is made (none is
\* pending, none happens) from a state in which completed is true
C4_CompletedOneWay ==
    /\ [](pc = "llmCall" => ~state.completed)
    /\ [][state.completed => (state.completed' /\ calls' = calls)]_vars

\* a run stopped by the service's flag alone, with budget and passes to spare
C4_Witness ==
    /\ pc = "returned"
    /\ state.completed
    /\ lastKind = "ok"
    /\ lastResponse.completed
    /\ state.word_remaining > CompletionThreshold
    /\ state.iterations > 1

\* C5: every run reaches END and returns, whatever the service does
C5_Terminates == <>(pc = "returned")

\* a run that returned after both successful and failed passes
C5_Witness ==
    /\ pc = "returned"
    /\ Succeeded
    /\ failures > 0
    /\ state.iterations > 0

\* C6 as stated: every pass, successful or failed, increases iterations by 1
C6_EveryPassCounts ==
    lastKind # "none" => state.iterations = lastState.iterations + 1

\* C6 amended: a successful pass increases iterations by exactly 1 and a
\* failed pass leaves iterations unchanged
C6_SuccessfulPassCounts ==
    /\ lastKind = "ok" => state.iterations = lastState.iterations + 1
    /\ lastKind = "fail" => state.iterations = lastState.iterations

\* a failed pass after successful ones
C6_Witness ==
    /\ lastKind = "fail"
    /\ state.iterations > 0
    /\ calls = state.iterations + failures

\* C7 as stated: at most 21 executions of llmCall, final iterations <= 21,
\* no pass starts once iterations > 20
C7_AtMost21Passes ==
    /\ calls <= IterationCeiling + 1
    /\ state.iterations <= IterationCeiling + 1
    /\ pc = "llmCall" => state.iterations <= IterationCeiling

\* C7 amended: at most 23 executions of llmCall (at most 21 successful ones
\* and at most 3 failed ones, the run ending at the 21st success or the 3rd
\* failure), final iterations <= 21, no pass starts once iterations > 20
C7_AtMost23Passes ==
    /\ calls <= IterationCeiling + maxRetries
    /\ state.iterations <= IterationCeiling + 1
    /\ failures <= maxRetries
    /\ pc = "llmCall" => state.iterations <= IterationCeiling

\* a run stopped by the iteration ceiling after 21 successes and 2 failures
C7_Witness ==
    /\ pc = "returned"
    /\ calls = IterationCeiling + maxRetries
    /\ state.iterations = IterationCeiling + 1
    /\ ~state.completed

\* C8: after 3 consecutive failed calls the loop stops with completed = true,
\* the run returns a success result, and the returned script is the trimmed
\* script accumulated by the successful passes before those failures
C8_ThreeFailuresStop ==
    streak >= maxRetries =>
        /\ state.completed
        /\ pc # "llmCall"
        /\ state.script = okScript
        /\ pc = "returned" =>
                (Succeeded /\ result.script = Trim(okScript))

\* a run that returned a non-empty partial script after 3 failures in a row
C8_Witness ==
    /\ streak = maxRetries
    /\ pc = "returned"
    /\ state.iterations > 0
    /\ result.script # <<>>

\* C9: a failed call adds 1 to error_count, sets completed exactly when
\* error_count reaches 3, and leaves every other field unchanged
C9_FailedPassFrame ==
    lastKind = "fail" =>
        /\ state.error_count = lastState.error_count + 1
        /\ state.completed = (lastState.completed \/ state.error_count = maxRetries)
        /\ state.topic = lastState.topic
        /\ state.max_words = lastState.max_words
        /\ state.word_count = lastState.word_count
        /\ state.word_remaining = lastState.word_remaining
        /\ state.script = lastState.script
        /\ state.summary = lastState.summary
        /\ state.script_type = lastState.script_type
        /\ state.iterations = lastState.iterations

\* a third failure after successful passes that had set every field
C9_Witness ==
    /\ lastKind = "fail"
    /\ state.error_count = maxRetries
    /\ state.completed
    /\ ~lastState.completed
    /\ state.iterations > 0
    /\ state.script_type # "undefined"
    /\ state.summary # <<>>

\* every call made so far in the loop has failed
AllCallsFailed == calls > 0 /\ calls = failures

\* C10: when the service fails on every call, the run makes exactly 3 calls
\* and returns success = true, script = "", wordCount = 0, with
\* error_count = 3 and completed = true in the final state
C10_AlwaysFailing ==
    AllCallsFailed =>
        /\ calls <= 3
        /\ pc = "llmCall" => calls < 3
        /\ pc \in {"END", "returned"} =>
                (calls = 3 /\ state.error_count = 3 /\ state.completed)
        /\ pc = "returned" =>
                (/\ Succeeded
                 /\ result.script = <<>>
                 /\ result.metadata.wordCount = 0)

\* a run that returned after nothing but failed calls
C10_Witness ==
    /\ AllCallsFailed
    /\ pc = "returned"
    /\ result.returned

\* C11: a max_words below 10 or above 40000 is rejected before the loop
\* starts: no llmCall execution is made, and the top-level call returns a
\* failure result with an empty script
C11_InvalidMaxWordsRejected ==
    (state.max_words < 10 \/ state.max_words > 40000) =>
        /\ calls = 0
        /\ pc \in {"start", "returned"}
        /\ pc = "returned" =>
                (/\ result.returned
                 /\ ~result.success
                 /\ result.script = <<>>)

\* a constructed agent refused max_words = 5 at validation
C11_Witness ==
    /\ state.max_words < 10
    /\ pc = "returned"
    /\ result.returned
    /\ result.error = "validation"

ResultKeys == {"wordCount", "iterations", "finalType", "efficiency"}

\* the shape of the value generateYouTubeScript returns
WellFormedResult ==
    /\ result.returned
    /\ result.success \in BOOLEAN
    /\ IF result.success
       THEN /\ result.metadata.keys = ResultKeys
            /\ result.script = Trim(state.script)
       ELSE /\ result.error # ""
            /\ result.script = <<>>
            /\ result.metadata.keys = {}

\* C12: generateYouTubeScript lets no error escape: every run returns, and
\* what it returns is a result with a success flag, carrying an error
\* message, an empty script and empty metadata when the flag is false, and
\* the script and the four metadata fields when it is true
C12_AlwaysWellFormedResult ==
    /\ <>(pc = "returned" /\ result.returned)
    /\ [](pc = "returned" => WellFormedResult)
    /\ [](result.returned => pc = "returned")

\* a valid request whose agent could not be constructed
C12_Witness ==
    /\ pc = "returned"
    /\ state.max_words = 100
    /\ result.returned
    /\ ~result.success
    /\ result.error = "construction"

\* the first pass of a run with max_words = 100 returned 40 words, flag false
Scenario100After40 ==
    /\ state.max_words = 100
    /\ calls = 1
    /\ lastKind = "ok"
    /\ lastResponse.continuation = WordsText(40)
    /\ ~lastResponse.completed

\* ... and the second pass returned 70 words, flag false
Scenario100After40And70 ==
    /\ state.max_words = 100
    /\ calls = 2
    /\ lastKind = "ok"
    /\ lastState.iterations = 1
    /\ lastState.word_count = 40
    /\ lastResponse.continuation = WordsText(70)
    /\ ~lastResponse.completed

\* C13: after every successful pass, completed = the service's flag or
\* (new word_remaining <= 50); with max_words = 100, 40 words (flag false)
\* give 40 / 60 / false, then 70 words (flag false) give 100 / 0 / true and
\* the loop stops after 2 passes
C13_CompletedRule ==
    /\ lastKind = "ok" =>
            state.completed = (lastResponse.completed \/ state.word_remaining <= 50)
    /\ Scenario100After40 =>
            (/\ state.word_count = 40
             /\ state.word_remaining = 60
             /\ ~state.completed
             /\ pc \in {"shouldContinue", "llmCall"})
    /\ Scenario100After40And70 =>
            (/\ state.word_count = 100
             /\ state.word_remaining = 0
             /\ state.completed
             /\ state.iterations = 2
             /\ pc \in {"shouldContinue", "END", "returned"})

\* the scenario's run has returned after its 2 passes
C13_Witness ==
    /\ Scenario100After40And70
    /\ pc = "returned"
    /\ result.metadata.iterations = 2

\* C14: error_count counts all the failed calls of the run, a successful
\* pass does not reset it, and a failed pass sets completed exactly when
\* the run's total of failed calls reaches 3
C14_ErrorCountCumulative ==
    /\ state.error_count = failures
    /\ lastKind = "ok" => state.error_count = lastState.error_count
    /\ lastKind = "fail" => (state.completed <=> failures = 3)

\* the third failure came right after a successful pass, the other two earlier
C14_Witness ==
    /\ lastKind = "fail"
    /\ failures = 3
    /\ streak = 1
    /\ state.completed
    /\ state.iterations > 1

IsPrefix(a, b) == Len(a) <= Len(b) /\ SubSeq(b, 1, Len(a)) = a

\* the continuation as accepted under a remaining budget of r words: whole
\* when it has at most r pieces, else its first r pieces joined by spaces
Accepted(continuation, r) ==
    LET pieces == SplitWS(continuation)
    IN  IF Len(pieces) > r
        THEN Join(SubSeq(pieces, 1, r), <<32>>)
        ELSE continuation

\* C15: script and summary are append-only in every step: a successful pass
\* appends the accepted continuation and one space to script and the whole
\* continuation summary and one space to summary, a failed pass leaves both
\* unchanged, so each value is a prefix of the next
C15_AppendOnly ==
    [][/\ IsPrefix(state.script, state'.script)
       /\ IsPrefix(state.summary, state'.summary)
       /\ (calls' = calls + 1 /\ lastKind' = "ok") =>
            (/\ state'.script = state.script
                    \o Accepted(lastResponse'.continuation, state.word_remaining)
                    \o <<32>>
             /\ state'.summary = state.summary
                    \o lastResponse'.continuation_summary \o <<32>>)
       /\ (calls' = calls + 1 /\ lastKind' = "fail") =>
            (/\ state'.script = state.script
             /\ state'.summary = state.summary)
      ]_vars

\* a truncated continuation appended to a script and a summary that earlier
\* passes had begun, in a run that also had a failed pass
C15_Witness ==
    /\ LastOvershoot
    /\ lastState.script # <<>>
    /\ lastState.summary # <<>>
    /\ Len(state.summary) > Len(lastState.summary) + 1
    /\ failures > 0

\* C16: word_count, iterations and error_count never decrease in any step
\* of a run, a clamped overshoot included
C16_CountersMonotone ==
    [][/\ state'.word_count >= state.word_count
       /\ state'.iterations >= state.iterations
       /\ state'.error_count >= state.error_count
      ]_vars

\* a clamped overshoot on top of earlier words, in a run with a failed pass
C16_Witness ==
    /\ LastOvershoot
    /\ lastState.word_count > 0
    /\ state.word_count > lastState.word_count
    /\ state.error_count > 0
    /\ state.iterations > 1

\* the request built from st has the first-iteration form (opening hook, no
\* summary) exactly when st.iterations = 0 and the continuation form with
\* the accumulated summary otherwise
RequestFormMatchesIterations(st) ==
    LET m == buildHumanMessage(st)
    IN  /\ (m.part = "first part") <=> (st.iterations = 0)
        /\ (m.part = "next part") <=> (st.iterations >= 1)
        /\ m.part = "first part" => (m.instruction = "hook" /\ ~m.hasSummary)
        /\ m.part = "next part" =>
                (/\ m.instruction = "continue"
                 /\ m.hasSummary
                 /\ m.summary = st.summary)
        /\ (st.word_count = 0) <=> (st.iterations = 0)

\* C17: for every call that is made (the one pending and the last one
\* made), the request has the first-iteration form exactly when no
\* successful pass has happened yet, and word_count = 0 coincides with
\* iterations = 0
C17_RequestForm ==
    /\ pc = "llmCall" => RequestFormMatchesIterations(state)
    /\ lastKind # "none" => RequestFormMatchesIterations(lastState)

\* a call is pending after one successful pass that added no word at all
C17_Witness ==
    /\ pc = "llmCall"
    /\ state.iterations = 1
    /\ lastKind = "ok"
    /\ lastResponse.continuation = <<>>
    /\ state.word_count = 1

\* C18: the returned efficiency is the nearest integer to
\* 100 * wordCount / maxWords, and lies between 0 and 100
C18_EfficiencyIsRoundedPercent ==
    Succeeded =>
        /\ result.metadata.efficiency
                = RoundPercent(result.metadata.wordCount, state.max_words)
        /\ result.metadata.efficiency \in 0..100

\* the part of C18 that does not depend on the rounding of a half
EfficiencyInRange ==
    Succeeded => result.metadata.efficiency \in 0..100

\* C19: word_count is the number of non-empty words in script, in every
\* state, and the returned wordCount is the number of words of the
\* returned script, whatever continuation the service returns
C19_WordCountMatchesScript ==
    /\ state.word_count = Len(RealWords(state.script))
    /\ Succeeded => result.metadata.wordCount = Len(RealWords(result.script))

\* C20: a call follows a successful pass only if that pass left
\* word_remaining > 50 with the service's flag false; so a pass that
\* truncated is followed by no call, a pass that is followed by a call
\* appended its continuation unmodified, and a run with max_words in 10..50
\* has at most one successful pass
C20_CallAfterSuccess ==
    /\ []((pc = "llmCall" /\ state.iterations >= 1) =>
            (state.word_remaining > 50 /\ ~state.completed))
    /\ []((pc = "llmCall" /\ lastKind = "ok") =>
            (/\ ~lastResponse.completed
             /\ ~LastOvershoot
             /\ LastAppended = lastResponse.continuation))
    /\ [][LastOvershoot => calls' = calls]_vars
    /\ [](state.max_words \in 10..50 => state.iterations <= 1)

\* a run whose third successful pass was truncated, the two before it not
C20_Witness ==
    /\ pc = "returned"
    /\ LastOvershoot
    /\ state.iterations = 3
    /\ failures = 0
    /\ state.word_count = state.max_words

====
